---- MODULE Spec2Model ----
(***************************************************************************)
(* A model of train.py: corpus loading (make_datasets), the batch          *)
(* iterators it builds, the loss criterion, and the optimisation loop      *)
(* (Trainer.train, Trainer.save, main).                                    *)
(*                                                                         *)
(* Four specifications share the module:                                   *)
(*   SpecData  make_datasets reading a tab-separated corpus file           *)
(*   SpecIter  one epoch of each iterator of BucketIterator.splits         *)
(*   SpecLoss  the criterion NLLLoss(ignore_index) on one batch            *)
(*   Spec      main: make_datasets, Trainer.train, Trainer.save            *)
(***************************************************************************)
EXTENDS Integers, Sequences, FiniteSets, TLC

VARIABLES
    \* ---- make_datasets, lines 34-56
    data_path,      \* "multi30k" or "file": whether data_path.lower() == 'multi30k'
    data_file,      \* the lines of the corpus file, each a sequence of characters
    src_first,      \* the --src-first flag
    lineNo,         \* number of lines the for loop of line 44 has taken
    examples,       \* the list `examples`
    train_example,  \* examples[:idx]
    valid_example,  \* examples[idx:]
    dpc,            \* position in make_datasets
    derr            \* the exception make_datasets raised, or "none"

VARIABLES
    \* ---- the iterators of BucketIterator.splits, line 61
    it_dataset,     \* the dataset the iterator reads: per example <<len(x.src), len(x.trg)>>
    batch_size,     \* batch_size
    it_train,       \* the iterator's `train` flag: TRUE for train_iterator, FALSE for valid_iterator
    pool_sorts,     \* whether the installed torchtext sorts inside pool() regardless of sort_within_batch
    it_batches,     \* the batches still to come in this epoch
    yielded,        \* the batches handed out in this epoch, in order; a row is an index into it_dataset
    ipc             \* "new", "iterating", "exhausted"

VARIABLES
    \* ---- the loss of one batch, lines 75 and 96-102
    l_trg,          \* batch.trg, one row per example: <sos> tokens <eos> <pad>...
    l_nll,          \* per row, per position of trg[1:]: minus the model's log-probability of the true id
    l_ignore,       \* the ignore_index the criterion was built with
    loss_first,     \* the loss of the batch
    loss_second,    \* the loss of the batch with an all-padding row appended
    lpc             \* "batch", "first", "appended", "second"

VARIABLES
    \* ---- main, Trainer.train and Trainer.save, lines 72-194
    pc,             \* position in main
    error,          \* the exception that left Trainer.train, or "none"
    epochs,         \* the epochs argument
    epoch,          \* the loop variable of line 78
    phase,          \* the loop variable of line 81
    loader_len,     \* len(self.data_loaders[phase]) of each phase
    batch,          \* batches the loop of line 88 has taken in this phase
    model_type,     \* type(self.model).__name__
    ignore_index,   \* self.ignore_index
    training,       \* the model's mode: TRUE after model.train(), FALSE after model.eval()
    grad_enabled,   \* whether gradient tracking is on
    params,         \* the model's parameters, as the number of updates applied to them
    opt_state,      \* the optimizer's own state, as the number of steps Adam has counted
    grads,          \* the parameters' gradients: "none", "zero", "computed", "accumulated"
    loss,           \* loss.item() of the batch
    epoch_loss,     \* the dict epoch_loss, each value a fraction [num, den]
    batch_losses,   \* per phase, the batch losses seen since the epoch began, in order
    ops,            \* the calls made for the current batch, in order
    checkpoints,    \* the bundles torch.save has written
    phases_done     \* phases run to their end (line 110)

dataVars == <<data_path, data_file, src_first, lineNo, examples, train_example, valid_example, dpc, derr>>
iterVars == <<it_dataset, batch_size, it_train, pool_sorts, it_batches, yielded, ipc>>
trainVars == <<pc, error, epochs, epoch, phase, loader_len, batch, model_type, ignore_index,
               training, grad_enabled, params, opt_state, grads, loss, epoch_loss,
               batch_losses, ops, checkpoints, phases_done>>
lossVars == <<l_trg, l_nll, l_ignore, loss_first, loss_second, lpc>>
vars == <<dataVars, iterVars, lossVars, trainVars>>

(***************************************************************************)
(* Bounds                                                                  *)
(***************************************************************************)
MaxLineLen == 3
MaxLines == 2
MaxExamples == 3
MaxBatchSize == 2
MaxRows == 2
MaxTrgToks == 1
MaxEpochs == 2

(***************************************************************************)
(* Characters and strings.  A string is a sequence of characters.          *)
(***************************************************************************)
TAB == "\t"
Chars == {"a", "b", TAB}
Whitespace == {TAB, " ", "\n"}

SeqsUpTo(S, n) == UNION {[1..k -> S] : k \in 0..n}

\* str.strip(): drop leading and trailing whitespace
RECURSIVE LStrip(_)
LStrip(s) ==
    IF s # <<>> /\ Head(s) \in Whitespace THEN LStrip(Tail(s)) ELSE s

RECURSIVE RStrip(_)
RStrip(s) ==
    IF s # <<>> /\ s[Len(s)] \in Whitespace THEN RStrip(SubSeq(s, 1, Len(s) - 1)) ELSE s

Strip(s) == RStrip(LStrip(s))

\* str.split('\t'): the fields between tabs; never an empty list
RECURSIVE SplitTab(_)
SplitTab(s) ==
    IF \A i \in 1..Len(s) : s[i] # TAB
    THEN <<s>>
    ELSE LET i == CHOOSE j \in 1..Len(s) : s[j] = TAB /\ \A k \in 1..(j - 1) : s[k] # TAB
         IN  <<SubSeq(s, 1, i - 1)>> \o SplitTab(SubSeq(s, i + 1, Len(s)))

(***************************************************************************)
(* make_datasets, the body of the loop over the file (lines 45-48).        *)
(* Line 46 is                                                              *)
(*   src_line, tgt_line = pair_line[0], pair_line[1] if src_first          *)
(*                        else pair_line[1], pair_line[0]                  *)
(* The conditional expression binds tighter than the commas, so the right  *)
(* side is a tuple of three: pair_line[0], (pair_line[1] if src_first else *)
(* pair_line[1]), pair_line[0].  Its elements are evaluated left to right  *)
(* (IndexError when pair_line has one field) and the tuple is then         *)
(* unpacked into two names (ValueError when it does not hold two).         *)
(***************************************************************************)
PairLine(line) == SplitTab(Strip(line))

Line46Tuple(pair_line, sf) ==
    <<pair_line[1], (IF sf THEN pair_line[2] ELSE pair_line[2]), pair_line[1]>>

Outcome(k, s, t) == [kind |-> k, src |-> s, trg |-> t]

ProcessLine(line, sf) ==
    LET pair_line == PairLine(line)
    IN  IF Len(pair_line) < 2
        THEN Outcome("IndexError", <<>>, <<>>)
        ELSE LET rhs == Line46Tuple(pair_line, sf)
             IN  IF Len(rhs) # 2
                 THEN Outcome("ValueError", <<>>, <<>>)
                 ELSE IF rhs[1] # <<>> /\ rhs[2] # <<>>
                      THEN Outcome("example", rhs[1], rhs[2])
                      ELSE Outcome("skip", <<>>, <<>>)

\* Example.fromlist([src_line, tgt_line], fields)
Example(s, t) == [src |-> s, trg |-> t]

\* int(len(examples)*0.8), line 52
SplitIdx(n) == (n * 8) \div 10

Perms(s) ==
    {p \in [1..Len(s) -> 1..Len(s)] : \A i, j \in 1..Len(s) : p[i] = p[j] => i = j}

\* random.shuffle(examples): any permutation
Shuffles(s) == {[i \in 1..Len(s) |-> s[p[i]]] : p \in Perms(s)}

DataStart ==
    /\ data_path = "file"
    /\ data_file \in SeqsUpTo(SeqsUpTo(Chars, MaxLineLen), MaxLines)
    /\ src_first \in BOOLEAN
    /\ lineNo = 0
    /\ examples = <<>>
    /\ train_example = <<>>
    /\ valid_example = <<>>
    /\ dpc = "read"
    /\ derr = "none"

\* one iteration of `for pair_line in pair_file` (lines 44-48)
ReadLine ==
    /\ data_path = "file"
    /\ dpc = "read"
    /\ lineNo < Len(data_file)
    /\ lineNo' = lineNo + 1
    /\ LET r == ProcessLine(data_file[lineNo + 1], src_first)
       IN  CASE r.kind = "example" ->
                  /\ examples' = Append(examples, Example(r.src, r.trg))
                  /\ UNCHANGED <<dpc, derr>>
             [] r.kind = "skip" ->
                  UNCHANGED <<examples, dpc, derr>>
             [] OTHER ->
                  /\ dpc' = "raised"
                  /\ derr' = r.kind
                  /\ UNCHANGED examples
    /\ UNCHANGED <<data_path, data_file, src_first, train_example, valid_example>>
    /\ UNCHANGED <<iterVars, lossVars, trainVars>>

\* the end of the file: shuffle and split (lines 51-56)
SplitData ==
    /\ data_path = "file"
    /\ dpc = "read"
    /\ lineNo = Len(data_file)
    /\ \E sh \in Shuffles(examples) :
          LET idx == SplitIdx(Len(sh))
          IN  /\ examples' = sh
              /\ train_example' = SubSeq(sh, 1, idx)
              /\ valid_example' = SubSeq(sh, idx + 1, Len(sh))
    /\ dpc' = "split"
    /\ UNCHANGED <<data_path, data_file, src_first, lineNo, derr>>
    /\ UNCHANGED <<iterVars, lossVars, trainVars>>

\* Multi30k.splits (lines 36-37): the packaged train and validation sets, neither empty
Multi30kSplits ==
    /\ data_path = "multi30k"
    /\ dpc = "read"
    /\ \E nt \in 1..MaxExamples, nv \in 1..MaxExamples :
          /\ train_example' = [i \in 1..nt |-> Example(<<"a">>, <<"b">>)]
          /\ valid_example' = [i \in 1..nv |-> Example(<<"a">>, <<"b">>)]
    /\ dpc' = "split"
    /\ UNCHANGED <<data_path, data_file, src_first, lineNo, examples, derr>>
    /\ UNCHANGED <<iterVars, lossVars, trainVars>>

(***************************************************************************)
(* The iterators (line 61):                                                *)
(*   BucketIterator.splits((train_data, valid_data), batch_size=...,       *)
(*       sort_key=lambda x: interleave_keys(len(x.src), len(x.trg)), ...)  *)
(* torchtext builds the first iterator with train=True and the second with *)
(* train=False; the call passes neither shuffle, sort nor                  *)
(* sort_within_batch, so shuffle = train, sort = not train and             *)
(* sort_within_batch = sort.                                               *)
(***************************************************************************)
\* sample <<source length, target length>> pairs of the examples
ExampleLens == {<<1, 1>>, <<2, 2>>, <<3, 1>>}

\* interleave_keys(a, b): the bits of a and b interleaved, a's bit the more
\* significant of each pair (lengths are below 2^16)
RECURSIVE InterleaveKeys(_, _)
InterleaveKeys(a, b) ==
    IF a = 0 /\ b = 0 THEN 0
    ELSE 4 * InterleaveKeys(a \div 2, b \div 2) + 2 * (a % 2) + (b % 2)

\* the sort_key lambda of line 61, of the example at index i
SortKey(ds, i) == InterleaveKeys(ds[i][1], ds[i][2])

\* sorted(xs, key=sort_key): ascending and stable
RECURSIVE Sorted(_, _)
Sorted(ds, xs) ==
    IF xs = <<>> THEN <<>>
    ELSE LET rest == Sorted(ds, SubSeq(xs, 1, Len(xs) - 1))
             x == xs[Len(xs)]
             pos == Cardinality({j \in 1..Len(rest) : SortKey(ds, rest[j]) <= SortKey(ds, x)})
         IN  SubSeq(rest, 1, pos) \o <<x>> \o SubSeq(rest, pos + 1, Len(rest))

Reverse(xs) == [i \in 1..Len(xs) |-> xs[Len(xs) + 1 - i]]

\* (batch() without its final short chunk)
RECURSIVE ChunksDropShort(_, _)
ChunksDropShort(xs, b) ==
    IF Len(xs) < b THEN <<>>
    ELSE <<SubSeq(xs, 1, b)>> \o ChunksDropShort(SubSeq(xs, b + 1, Len(xs)), b)

\* torchtext batch(data, batch_size): consecutive chunks, the last one possibly short
RECURSIVE Chunks(_, _)
Chunks(xs, b) ==
    IF xs = <<>> THEN <<>>
    ELSE IF Len(xs) <= b THEN <<xs>>
    ELSE <<SubSeq(xs, 1, b)>> \o Chunks(SubSeq(xs, b + 1, Len(xs)), b)

\* len(iterator) = math.ceil(len(dataset) / batch_size)
IterLen(n, b) == (n + b - 1) \div b

ItShuffle(train) == train
ItSort(train) == ~train
ItSortWithinBatch(train) == ItSort(train)

\* Iterator.data(): sorted when sort, a random permutation when shuffle
DataOrders(ds, train) ==
    LET all == [i \in 1..Len(ds) |-> i]
    IN  IF ItSort(train) THEN {Sorted(ds, all)}
        ELSE IF ItShuffle(train) THEN Shuffles(all)
        ELSE {all}

\* pool(): chunks of 100 batches, each cut into batches (after a sort by key
\* when the library sorts there), the batches of a chunk shuffled when shuffle
RECURSIVE PoolOver(_, _, _, _, _)
PoolOver(ds, ps, b, train, sorts) ==
    IF ps = <<>> THEN {<<>>}
    ELSE LET p == Head(ps)
             p_batch == Chunks(IF sorts THEN Sorted(ds, p) ELSE p, b)
             heads == IF ItShuffle(train) THEN Shuffles(p_batch) ELSE {p_batch}
         IN  {h \o t : h \in heads, t \in PoolOver(ds, Tail(ps), b, train, sorts)}

\* BucketIterator.create_batches()
CreateBatches(ds, b, train, sorts) ==
    UNION { IF ItSort(train)
            THEN {Chunks(xs, b)}
            ELSE PoolOver(ds, Chunks(xs, b * 100), b, train, sorts \/ ItSortWithinBatch(train))
          : xs \in DataOrders(ds, train) }

\* Iterator.__iter__, what it does to a minibatch before handing it out
Minibatch(ds, mb, train) ==
    IF ItSortWithinBatch(train)
    THEN IF ItSort(train) THEN Reverse(mb) ELSE Reverse(Sorted(ds, Reverse(mb)))
    ELSE mb

IterStart ==
    /\ it_dataset \in SeqsUpTo(ExampleLens, MaxExamples)
    /\ batch_size \in 1..MaxBatchSize
    /\ it_train \in BOOLEAN
    /\ pool_sorts \in BOOLEAN
    /\ it_batches = <<>>
    /\ yielded = <<>>
    /\ ipc = "new"

\* init_epoch(): create_batches()
InitEpoch ==
    /\ ipc = "new"
    /\ it_batches' \in CreateBatches(it_dataset, batch_size, it_train, pool_sorts)
    /\ yielded' = <<>>
    /\ ipc' = "iterating"
    /\ UNCHANGED <<it_dataset, batch_size, it_train, pool_sorts>>
    /\ UNCHANGED <<dataVars, lossVars, trainVars>>

\* the next minibatch of the epoch
YieldBatch ==
    /\ ipc = "iterating"
    /\ it_batches # <<>>
    /\ yielded' = Append(yielded, Minibatch(it_dataset, Head(it_batches), it_train))
    /\ it_batches' = Tail(it_batches)
    /\ UNCHANGED <<it_dataset, batch_size, it_train, pool_sorts, ipc>>
    /\ UNCHANGED <<dataVars, lossVars, trainVars>>

\* repeat is False: the iterator stops after one pass
EndEpoch ==
    /\ ipc = "iterating"
    /\ it_batches = <<>>
    /\ ipc' = "exhausted"
    /\ UNCHANGED <<it_dataset, batch_size, it_train, pool_sorts, it_batches, yielded>>
    /\ UNCHANGED <<dataVars, lossVars, trainVars>>

(***************************************************************************)
(* The target vocabulary and the loss.                                     *)
(* Field(init_token='<sos>', eos_token='<eos>') builds its vocabulary with *)
(* the specials <unk>, <pad>, <sos>, <eos> first, so their ids are their   *)
(* positions in that list, counted from 0.                                 *)
(***************************************************************************)
Specials == <<"<unk>", "<pad>", "<sos>", "<eos>">>
Stoi(tok) == (CHOOSE i \in 1..Len(Specials) : Specials[i] = tok) - 1

\* lines 165-167
tgt_sos == Stoi("<sos>")
tgt_pad == Stoi("<pad>")
tgt_eos == Stoi("<eos>")

\* the id of the one ordinary word of the sample vocabulary
WordId == Len(Specials)

\* (another special id handed to the Trainer)
TrainerIgnoreWrong == tgt_sos
\* line 192: Trainer(model, train_iterator, val_iterator, tgt_pad), what
\* __init__ stores as self.ignore_index (line 70)
TrainerIgnoreIndex == tgt_pad

\* Field.pad and numericalize: <sos> ids <eos>, padded on the right to the longest row
PadRow(ids, width) ==
    <<tgt_sos>> \o ids \o <<tgt_eos>> \o [i \in 1..(width - Len(ids)) |-> tgt_pad]

RECURSIVE SeqMax(_)
SeqMax(xs) ==
    IF xs = <<>> THEN 0
    ELSE LET m == SeqMax(Tail(xs)) IN IF Head(xs) > m THEN Head(xs) ELSE m

BatchTrg(sents) ==
    LET width == SeqMax([i \in 1..Len(sents) |-> Len(sents[i])])
    IN  [i \in 1..Len(sents) |-> PadRow(sents[i], width)]

RECURSIVE SeqSum(_)
SeqSum(xs) == IF xs = <<>> THEN 0 ELSE Head(xs) + SeqSum(Tail(xs))

\* trg[1:], line 100: the first position of every row is dropped
DropFirst(trg) == [r \in 1..Len(trg) |-> Tail(trg[r])]

\* NLLLoss(ignore_index)(output, target) with the default reduction 'mean':
\* the sum over the positions whose target is not ignore_index, and their
\* number; the loss is their quotient (not a number when there is none)
NLLLoss(nll, target, ignore) ==
    LET kept(r) == {i \in 1..Len(target[r]) : target[r][i] # ignore}
    IN  [sum |-> SeqSum([r \in 1..Len(target) |->
                            SeqSum([i \in 1..Len(target[r]) |->
                                      IF i \in kept(r) THEN nll[r][i] ELSE 0])]),
         n   |-> SeqSum([r \in 1..Len(target) |-> Cardinality(kept(r))])]

\* lines 98-102: criterion(output.view(-1, d_out), trg[1:].view(-1))
BatchLoss(nll, trg, ignore) == NLLLoss(nll, DropFirst(trg), ignore)

NoLoss == [sum |-> 0, n |-> 0]

\* equality of two means sum/n
SameLoss(x, y) == x.n > 0 /\ y.n > 0 /\ x.sum * y.n = y.sum * x.n

NllValues == {1, 2}
Sentences == SeqsUpTo({WordId}, MaxTrgToks)

LossStart ==
    /\ \E sents \in SeqsUpTo(Sentences, MaxRows) \ {<<>>} :
          /\ l_trg = BatchTrg(sents)
          /\ l_nll \in [1..Len(sents) -> [1..(Len(BatchTrg(sents)[1]) - 1) -> NllValues]]
    /\ l_ignore = TrainerIgnoreIndex
    /\ loss_first = NoLoss
    /\ loss_second = NoLoss
    /\ lpc = "batch"

\* the loss of the batch (line 102)
LossOfBatch ==
    /\ lpc = "batch"
    /\ loss_first' = BatchLoss(l_nll, l_trg, l_ignore)
    /\ lpc' = "first"
    /\ UNCHANGED <<l_trg, l_nll, l_ignore, loss_second>>
    /\ UNCHANGED <<dataVars, iterVars, trainVars>>

\* a row of padding ids only joins the batch; the model's output for it is arbitrary
AppendPadRow ==
    /\ lpc = "first"
    /\ LET width == Len(l_trg[1])
       IN  /\ l_trg' = Append(l_trg, [i \in 1..width |-> tgt_pad])
           /\ \E out \in [1..(width - 1) -> NllValues] : l_nll' = Append(l_nll, out)
    /\ lpc' = "appended"
    /\ UNCHANGED <<l_ignore, loss_first, loss_second>>
    /\ UNCHANGED <<dataVars, iterVars, trainVars>>

\* the loss of the longer batch (line 102)
LossOfLongerBatch ==
    /\ lpc = "appended"
    /\ loss_second' = BatchLoss(l_nll, l_trg, l_ignore)
    /\ lpc' = "second"
    /\ UNCHANGED <<l_trg, l_nll, l_ignore, loss_first>>
    /\ UNCHANGED <<dataVars, iterVars, trainVars>>

(***************************************************************************)
(* main, Trainer.train and Trainer.save                                    *)
(***************************************************************************)
\* fractions, for epoch_loss
Frac(a, b) == [num |-> a, den |-> b]
FracAdd(q, l) == Frac(q.num + l * q.den, q.den)
FracDiv(q, k) == Frac(q.num, q.den * k)
FracEq(q, r) == q.num * r.den = r.num * q.den

LossValues == {1, 2}
ModelNames == {"Transformer", "GRU"}

\* lines 173-189: a Transformer when model_name says so, a Seq2seq otherwise
ModelType(model_name) == IF model_name = "Transformer" THEN "Transformer" ELSE "Seq2seq"

\* (a handler around the batch that goes on to the next one)
RaiseCaught(e) ==
    /\ error' = e
    /\ pc' = "batch"
\* an exception leaves Trainer.train and main: neither holds a try
Raise(e) ==
    /\ error' = e
    /\ pc' = "raised"

\* (backward and step in either phase)
AfterCriterionAlways(ph) == "backward"
\* line 104: backward and step only in the train phase
AfterCriterion(ph) == IF ph = "train" THEN "backward" ELSE "accumulate"

\* (the accumulator kept from the epoch before)
ResetSkipped(el, ph) == el
\* line 87
ResetEpochLoss(el, ph) == [el EXCEPT ![ph] = Frac(0, 1)]

\* (gradients left as they are)
ZeroGradSkipped(g) == g
\* line 92: optimizer.zero_grad()
ZeroGradOf(g) == "zero"

\* the bundle of lines 148-155
Bundle == [state_dict |-> params, parameter |-> model_type,
           src_vocab |-> "src_field.vocab", tgt_vocab |-> "tgt_field.vocab"]

\* lines 58-62 and 165-192: vocabularies, iterators, model, Trainer
BuildTrainer ==
    /\ pc = "start"
    /\ dpc = "split"
    /\ \E b \in 1..MaxBatchSize, e \in 0..MaxEpochs, name \in ModelNames :
          /\ loader_len' = [train |-> IterLen(Len(train_example), b),
                            val   |-> IterLen(Len(valid_example), b)]
          /\ epochs' = e
          /\ model_type' = ModelType(name)
    /\ ignore_index' = TrainerIgnoreIndex
    /\ pc' = "train"
    /\ UNCHANGED <<error, epoch, phase, batch, training, grad_enabled, params, opt_state,
                   grads, loss, epoch_loss, batch_losses, ops, checkpoints, phases_done>>
    /\ UNCHANGED <<dataVars, iterVars, lossVars>>

\* lines 74-76: optimizer, criterion, epoch_loss
TrainStart ==
    /\ pc = "train"
    /\ epoch_loss' = [train |-> Frac(0, 1), val |-> Frac(0, 1)]
    /\ epoch' = 0
    /\ pc' = "epoch"
    /\ UNCHANGED <<error, epochs, phase, loader_len, batch, model_type, ignore_index, training,
                   grad_enabled, params, opt_state, grads, loss, batch_losses, ops,
                   checkpoints, phases_done>>
    /\ UNCHANGED <<dataVars, iterVars, lossVars>>

\* lines 78-79: the next epoch, or the end of the loop
EpochHead ==
    /\ pc = "epoch"
    /\ IF epoch < epochs
       THEN /\ pc' = "phase"
            /\ phase' = "train"
            /\ batch_losses' = [train |-> <<>>, val |-> <<>>]
       ELSE /\ pc' = "save"
            /\ UNCHANGED <<phase, batch_losses>>
    /\ UNCHANGED <<error, epochs, epoch, loader_len, batch, model_type, ignore_index, training,
                   grad_enabled, params, opt_state, grads, loss, epoch_loss, ops,
                   checkpoints, phases_done>>
    /\ UNCHANGED <<dataVars, iterVars, lossVars>>

\* lines 81-87: the model's mode, the accumulator's reset
PhaseHead ==
    /\ pc = "phase"
    /\ training' = (phase = "train")
    /\ epoch_loss' = ResetEpochLoss(epoch_loss, phase)
    /\ batch' = 0
    /\ pc' = "batch"
    /\ UNCHANGED <<error, epochs, epoch, phase, loader_len, model_type, ignore_index,
                   grad_enabled, params, opt_state, grads, loss, batch_losses, ops,
                   checkpoints, phases_done>>
    /\ UNCHANGED <<dataVars, iterVars, lossVars>>

\* line 88: the next batch of the loader, or the end of its pass
NextBatch ==
    /\ pc = "batch"
    /\ IF batch < loader_len[phase]
       THEN /\ batch' = batch + 1
            /\ ops' = <<>>
            /\ pc' = "zero_grad"
       ELSE /\ pc' = "average"
            /\ UNCHANGED <<batch, ops>>
    /\ UNCHANGED <<error, epochs, epoch, phase, loader_len, model_type, ignore_index, training,
                   grad_enabled, params, opt_state, grads, loss, epoch_loss, batch_losses,
                   checkpoints, phases_done>>
    /\ UNCHANGED <<dataVars, iterVars, lossVars>>

\* lines 92-95: zero_grad, loss = 0, set_grad_enabled(phase == 'train')
ZeroGrad ==
    /\ pc = "zero_grad"
    /\ grads' = ZeroGradOf(grads)
    /\ loss' = 0
    /\ grad_enabled' = (phase = "train")
    /\ ops' = Append(ops, "zero_grad")
    /\ pc' = "forward"
    /\ UNCHANGED <<error, epochs, epoch, phase, loader_len, batch, model_type, ignore_index,
                   training, params, opt_state, epoch_loss, batch_losses, checkpoints,
                   phases_done>>
    /\ UNCHANGED <<dataVars, iterVars, lossVars>>

\* line 96: output = self.model(src, trg)
Forward ==
    /\ pc = "forward"
    /\ ops' = Append(ops, "forward")
    /\ pc' = "criterion"
    /\ UNCHANGED <<error, epochs, epoch, phase, loader_len, batch, model_type, ignore_index,
                   training, grad_enabled, params, opt_state, grads, loss, epoch_loss,
                   batch_losses, checkpoints, phases_done>>
    /\ UNCHANGED <<dataVars, iterVars, lossVars>>

\* lines 98-104: the loss of the batch, whatever the model's output makes it
Criterion ==
    /\ pc = "criterion"
    /\ \E l \in LossValues : loss' = loss + l
    /\ ops' = Append(ops, "criterion")
    /\ pc' = AfterCriterion(phase)
    /\ UNCHANGED <<error, epochs, epoch, phase, loader_len, batch, model_type, ignore_index,
                   training, grad_enabled, params, opt_state, grads, epoch_loss,
                   batch_losses, checkpoints, phases_done>>
    /\ UNCHANGED <<dataVars, iterVars, lossVars>>

\* line 105: loss.backward() adds to the gradients
Backward ==
    /\ pc = "backward"
    /\ grads' = IF grads \in {"none", "zero"} THEN "computed" ELSE "accumulated"
    /\ ops' = Append(ops, "backward")
    /\ pc' = "step"
    /\ UNCHANGED <<error, epochs, epoch, phase, loader_len, batch, model_type, ignore_index,
                   training, grad_enabled, params, opt_state, loss, epoch_loss,
                   batch_losses, checkpoints, phases_done>>
    /\ UNCHANGED <<dataVars, iterVars, lossVars>>

\* line 106: optimizer.step()
Step ==
    /\ pc = "step"
    /\ params' = params + 1
    /\ opt_state' = opt_state + 1
    /\ ops' = Append(ops, "step")
    /\ pc' = "accumulate"
    /\ UNCHANGED <<error, epochs, epoch, phase, loader_len, batch, model_type, ignore_index,
                   training, grad_enabled, grads, loss, epoch_loss, batch_losses,
                   checkpoints, phases_done>>
    /\ UNCHANGED <<dataVars, iterVars, lossVars>>

\* a call of lines 96-106 raises
StepRaises ==
    /\ pc \in {"forward", "criterion", "backward", "step"}
    /\ Raise("RuntimeError")
    /\ UNCHANGED <<epochs, epoch, phase, loader_len, batch, model_type, ignore_index,
                   training, grad_enabled, params, opt_state, grads, loss, epoch_loss,
                   batch_losses, ops, checkpoints, phases_done>>
    /\ UNCHANGED <<dataVars, iterVars, lossVars>>

\* line 108, and the end of the with block of line 95
Accumulate ==
    /\ pc = "accumulate"
    /\ epoch_loss' = [epoch_loss EXCEPT ![phase] = FracAdd(@, loss)]
    /\ batch_losses' = [batch_losses EXCEPT ![phase] = Append(@, loss)]
    /\ grad_enabled' = TRUE
    /\ pc' = "batch"
    /\ UNCHANGED <<error, epochs, epoch, phase, loader_len, batch, model_type, ignore_index,
                   training, params, opt_state, grads, loss, ops, checkpoints, phases_done>>
    /\ UNCHANGED <<dataVars, iterVars, lossVars>>

\* line 110: epoch_loss[phase] /= len(self.data_loaders[phase])
Average ==
    /\ pc = "average"
    /\ IF loader_len[phase] = 0
       THEN /\ Raise("ZeroDivisionError")
            /\ UNCHANGED <<phase, epoch_loss, phases_done>>
       ELSE /\ epoch_loss' = [epoch_loss EXCEPT ![phase] = FracDiv(@, loader_len[phase])]
            /\ phases_done' = phases_done + 1
            /\ IF phase = "train"
               THEN phase' = "val" /\ pc' = "phase"
               ELSE phase' = phase /\ pc' = "report"
            /\ UNCHANGED error
    /\ UNCHANGED <<epochs, epoch, loader_len, batch, model_type, ignore_index, training,
                   grad_enabled, params, opt_state, grads, loss, batch_losses, ops,
                   checkpoints>>
    /\ UNCHANGED <<dataVars, iterVars, lossVars>>

\* lines 112-114: the losses of the epoch are printed
Report ==
    /\ pc = "report"
    /\ epoch' = epoch + 1
    /\ pc' = "epoch"
    /\ UNCHANGED <<error, epochs, phase, loader_len, batch, model_type, ignore_index, training,
                   grad_enabled, params, opt_state, grads, loss, epoch_loss, batch_losses,
                   ops, checkpoints, phases_done>>
    /\ UNCHANGED <<dataVars, iterVars, lossVars>>

\* (nothing written)
SavedNothing(cps, name) == cps
\* lines 118-156: one bundle for a Seq2seq or a Transformer, nothing otherwise
Saved(cps, name) ==
    IF name \in {"Seq2seq", "Transformer"} THEN Append(cps, Bundle) ELSE cps

\* Trainer.save, lines 116-156
Save ==
    /\ pc = "save"
    /\ checkpoints' = Saved(checkpoints, model_type)
    /\ pc' = "done"
    /\ UNCHANGED <<error, epochs, epoch, phase, loader_len, batch, model_type, ignore_index,
                   training, grad_enabled, params, opt_state, grads, loss, epoch_loss,
                   batch_losses, ops, phases_done>>
    /\ UNCHANGED <<dataVars, iterVars, lossVars>>

(***************************************************************************)
(* The specifications.  Each leaves the parts it does not run at rest.     *)
(***************************************************************************)
DataIdle ==
    /\ data_path = "file"
    /\ data_file = <<>>
    /\ src_first = FALSE
    /\ lineNo = 0
    /\ examples = <<>>
    /\ train_example = <<>>
    /\ valid_example = <<>>
    /\ dpc = "idle"
    /\ derr = "none"

IterIdle ==
    /\ it_dataset = <<>>
    /\ batch_size = 1
    /\ it_train = FALSE
    /\ pool_sorts = FALSE
    /\ it_batches = <<>>
    /\ yielded = <<>>
    /\ ipc = "idle"

LossIdle ==
    /\ l_trg = <<>>
    /\ l_nll = <<>>
    /\ l_ignore = TrainerIgnoreIndex
    /\ loss_first = NoLoss
    /\ loss_second = NoLoss
    /\ lpc = "idle"

TrainFresh(at) ==
    /\ pc = at
    /\ error = "none"
    /\ epochs = 0
    /\ epoch = 0
    /\ phase = "train"
    /\ loader_len = [train |-> 0, val |-> 0]
    /\ batch = 0
    /\ model_type = "none"
    /\ ignore_index = TrainerIgnoreIndex
    /\ training = TRUE
    /\ grad_enabled = TRUE
    /\ params = 0
    /\ opt_state = 0
    /\ grads = "none"
    /\ loss = 0
    /\ epoch_loss = [train |-> Frac(0, 1), val |-> Frac(0, 1)]
    /\ batch_losses = [train |-> <<>>, val |-> <<>>]
    /\ ops = <<>>
    /\ checkpoints = <<>>
    /\ phases_done = 0

DataInit == DataStart /\ IterIdle /\ LossIdle /\ TrainFresh("idle")
DataNext == ReadLine \/ SplitData
\* make_datasets on a corpus file
SpecData == DataInit /\ [][DataNext]_vars

IterInit == IterStart /\ DataIdle /\ LossIdle /\ TrainFresh("idle")
IterNext == InitEpoch \/ YieldBatch \/ EndEpoch
\* one epoch of an iterator
SpecIter == IterInit /\ [][IterNext]_vars

LossInit == LossStart /\ DataIdle /\ IterIdle /\ TrainFresh("idle")
LossNext == LossOfBatch \/ AppendPadRow \/ LossOfLongerBatch
\* the criterion on a batch, and on the batch with a padding row
SpecLoss == LossInit /\ [][LossNext]_vars

\* sample corpus files for main: empty, one pair, one line without a tab
SampleFiles == {<<>>, <<<<"a", TAB, "b">>>>, <<<<"a">>>>}

Init ==
    /\ data_path \in {"multi30k", "file"}
    /\ data_file \in (IF data_path = "file" THEN SampleFiles ELSE {<<>>})
    /\ src_first \in BOOLEAN
    /\ lineNo = 0
    /\ examples = <<>>
    /\ train_example = <<>>
    /\ valid_example = <<>>
    /\ dpc = "read"
    /\ derr = "none"
    /\ IterIdle
    /\ LossIdle
    /\ TrainFresh("start")

Next ==
    \/ ReadLine \/ SplitData \/ Multi30kSplits
    \/ BuildTrainer \/ TrainStart \/ EpochHead \/ PhaseHead \/ NextBatch \/ ZeroGrad
    \/ Forward \/ Criterion \/ Backward \/ Step \/ StepRaises \/ Accumulate \/ Average
    \/ Report \/ Save

\* main
Spec == Init /\ [][Next]_vars

(***************************************************************************)
(* The claims                                                              *)
(***************************************************************************)
BundleKeys == {"state_dict", "parameter", "src_vocab", "tgt_vocab"}

\* C1: a run of main that ends without error has written the bundle (weights,
\* hyperparameters, both vocabularies) exactly once, after every configured
\* epoch ran both of its phases; until then no checkpoint exists.
C1_CheckpointOnceAtEnd ==
    /\ pc = "done" =>
          /\ Len(checkpoints) = 1
          /\ DOMAIN checkpoints[1] = BundleKeys
          /\ checkpoints[1].state_dict = params
          /\ epoch = epochs
          /\ phases_done = 2 * epochs
    /\ pc # "done" => checkpoints = <<>>

C1_Witness ==
    /\ pc = "done"
    /\ epochs = 2
    /\ loader_len.train = 2
    /\ Len(checkpoints) = 1

\* C2: once a training or validation step has raised, the error has left
\* Trainer.train and main (nothing caught it), no checkpoint exists, and the
\* program takes no further step: no batch, no epoch, no save.
C2_ErrorAborts ==
    /\ [](error # "none" => pc = "raised" /\ checkpoints = <<>>)
    /\ [][error = "none"]_vars

C2_Witness ==
    /\ error = "RuntimeError"
    /\ pc = "raised"
    /\ phase = "val"
    /\ epoch = 1
    /\ batch = 2
    /\ ops = <<"zero_grad", "forward">>

\* the least k with k * b >= n
CeilDiv(n, b) == CHOOSE k \in 0..n : k * b >= n /\ (k = 0 \/ (k - 1) * b < n)

RECURSIVE Flatten(_)
Flatten(bs) == IF bs = <<>> THEN <<>> ELSE Head(bs) \o Flatten(Tail(bs))

\* C3: an epoch of either iterator hands out exactly ceil(N/B) batches, none
\* empty and none longer than B, whose rows are the N examples, each once;
\* len(iterator) is that number too.
C3_BatchesCoverCorpus ==
    ipc = "exhausted" =>
       LET n == Len(it_dataset)
           rows == Flatten(yielded)
       IN  /\ Len(yielded) = CeilDiv(n, batch_size)
           /\ IterLen(n, batch_size) = Len(yielded)
           /\ \A k \in 1..Len(yielded) : Len(yielded[k]) \in 1..batch_size
           /\ Len(rows) = n
           /\ \A i \in 1..n : \E j \in 1..n : rows[j] = i

C3_Witness ==
    /\ ipc = "exhausted"
    /\ it_train
    /\ Len(it_dataset) = 3
    /\ batch_size = 2
    /\ Len(yielded) = 2
    /\ Len(yielded[1]) = 1

\* C4: in every batch handed out the rows are in non-increasing order of
\* source length.
C4_RowsBySourceLength ==
    \A k \in 1..Len(yielded) :
       \A i, j \in 1..Len(yielded[k]) :
          i < j => it_dataset[yielded[k][i]][1] >= it_dataset[yielded[k][j]][1]

\* C5: the loss of a batch is the same with a row of padding ids appended,
\* it counts exactly the positions of trg[1:] that are not padding, and the
\* id it ignores is the target vocabulary's padding id.
C5_PaddingIgnored ==
    /\ l_ignore = tgt_pad
    /\ lpc \in {"first", "appended", "second"} =>
          loss_first.n = Cardinality({<<r, i>> \in (1..Len(l_trg)) \X (2..Len(l_trg[1])) :
                                        l_trg[r][i] # tgt_pad})
    /\ lpc = "second" => SameLoss(loss_first, loss_second)

C5_Witness ==
    /\ lpc = "second"
    /\ Len(l_trg) = 3
    /\ l_trg[1][Len(l_trg[1])] = tgt_pad
    /\ l_trg[2][Len(l_trg[2])] = tgt_eos
    /\ loss_first.sum * 2 # loss_first.n * 3

\* a line as the claims see it: its columns are the fields between the tabs
Malformed(line) ==
    LET cols == SplitTab(line)
    IN  Len(cols) < 2 \/ cols[1] = <<>> \/ cols[2] = <<>>

RECURSIVE ExpectedExamples(_, _)
ExpectedExamples(lines, sf) ==
    IF lines = <<>> THEN <<>>
    ELSE LET cols == SplitTab(Head(lines))
             rest == ExpectedExamples(Tail(lines), sf)
         IN  IF Malformed(Head(lines)) THEN rest
             ELSE <<IF sf THEN Example(cols[1], cols[2]) ELSE Example(cols[2], cols[1])>> \o rest

\* C6: a malformed line (no tab, or an empty source or target side) raises
\* no error.
C6_MalformedSkipped ==
    \A i \in 1..lineNo :
       Malformed(data_file[i]) => ~(dpc = "raised" /\ i = lineNo)

\* C7: the lines read so far have left one example per well-formed line,
\* with source and target taken from columns 0 and 1 when src_first and from
\* columns 1 and 0 otherwise.
C7_ColumnOrder ==
    dpc \in {"read", "raised"} =>
       examples = ExpectedExamples(SubSeq(data_file, 1, lineNo), src_first)

\* C8: a training batch is one zero_grad, forward, loss, backward and
\* optimizer step, in that order; no step uses gradients left over from before
\* the last reset; an epoch steps the optimizer once per training batch, so
\* after E epochs over K batches it has stepped E*K times.
C8_OneStepPerBatch ==
    /\ (pc = "accumulate" /\ phase = "train") =>
          ops = <<"zero_grad", "forward", "criterion", "backward", "step">>
    /\ pc = "step" => grads = "computed"
    /\ (pc = "batch" /\ phase = "train") => opt_state = epoch * loader_len.train + batch
    /\ pc = "report" => opt_state = (epoch + 1) * loader_len.train
    /\ pc \in {"save", "done"} => opt_state = epochs * loader_len.train

C8_Witness ==
    /\ pc = "done"
    /\ epochs = 2
    /\ loader_len.train = 2
    /\ opt_state = 4

\* C9: a phase starts with its accumulator at zero, and the loss an epoch
\* reports for a phase is the sum of that epoch's batch losses of the phase
\* over the number of batches of its iterator, whatever earlier epochs saw.
C9_EpochLossPerEpoch ==
    /\ (pc = "batch" /\ batch = 0) => epoch_loss[phase] = Frac(0, 1)
    /\ pc = "report" =>
          \A ph \in {"train", "val"} :
             /\ loader_len[ph] > 0
             /\ Len(batch_losses[ph]) = loader_len[ph]
             /\ FracEq(epoch_loss[ph], Frac(SeqSum(batch_losses[ph]), loader_len[ph]))

C9_Witness ==
    /\ pc = "report"
    /\ epoch = 1
    /\ loader_len.train = 2
    /\ batch_losses.train = <<1, 2>>
    /\ batch_losses.val = <<2>>

InPhase == {"phase", "batch", "zero_grad", "forward", "criterion", "backward", "step",
            "accumulate", "average"}

\* C10: the val phase starts once the train phase of the epoch has run all
\* its batches; in it the model is in eval mode, gradient tracking is off
\* around forward and loss, and neither backward nor an optimizer step is
\* made; parameters and optimizer state change only in an optimizer step of
\* a train phase.
C10_ValReadOnly ==
    /\ []((phase = "val" /\ pc \in InPhase) =>
             /\ phases_done = 2 * epoch + 1
             /\ opt_state = (epoch + 1) * loader_len.train
             /\ pc \notin {"backward", "step"}
             /\ pc \in {"batch", "zero_grad", "forward", "criterion", "accumulate", "average"}
                   => ~training
             /\ pc \in {"forward", "criterion", "accumulate"} => ~grad_enabled)
    /\ [][phase = "val" => (params' = params /\ opt_state' = opt_state)]_vars
    /\ [][(params' # params \/ opt_state' # opt_state) => (pc = "step" /\ phase = "train")]_vars

C10_Witness ==
    /\ phase = "val"
    /\ pc = "accumulate"
    /\ epoch = 1
    /\ batch = 2
    /\ params = 4
    /\ ops = <<"zero_grad", "forward", "criterion">>

====
